---- MODULE Spec2Model ----
(***************************************************************************)
(* Model of rustacean-roulette: the Roulette revolver of src/lib.rs        *)
(* (RouletteConfig::start, Roulette::reload / fire / peek) and the         *)
(* per-trigger protocol of src/commands/roulette.rs, src/commands/peek.rs  *)
(* and src/main.rs that drives one Mutex<Roulette> per group.              *)
(*                                                                         *)
(* Indices: Rust's contents[i] (0-based) is contents[r][i + 1] here;       *)
(* position keeps its 0-based value.                                       *)
(* jam_probability p (f64) is kept in percent: jam = 100 * p.              *)
(***************************************************************************)
EXTENDS Integers, Sequences, FiniteSets, TLC

\* ---------------------------------------------------------------- bounds
MaxChambers == 3
NumRooms == 2
NumTasks == 3
MaxReloads == 2

\* ------------------------------------------------------- program constants
MinMuteFloor == 30
MaxMuteCeil == 3600

Rooms == 1..NumRooms
Tasks == 1..NumTasks
\* The revolver owned by the sequential harness (tests::test_restart).
TestRoom == 1
\* Calls to fire between two reloads in the sequential harness.
MaxFires == MaxChambers + 2

\* Values of jam_probability, in percent; 150 is the f64 1.5.
JamValues == {0, 50, 100, 150}
MinMuteValues == {MinMuteFloor - 1, MinMuteFloor, MaxMuteCeil, MaxMuteCeil + 100}
MaxMuteValues == {MinMuteFloor - 10, MinMuteFloor, MaxMuteCeil, MaxMuteCeil + 1}

\* struct RouletteConfig, every value the deserializer can hand to start.
RouletteConfig ==
    [chambers : 0..MaxChambers, bullets : 0..MaxChambers, jam : JamValues,
     min_mute_time : MinMuteValues, max_mute_time : MaxMuteValues]

\* Option<T>: None is <<>>, Some(v) is <<v>>.
Opt(S) == {<<>>} \cup {<<v>> : v \in S}

\* struct GroupConfig without its id, which resolve ignores.
GroupConfig ==
    [chambers : Opt({1, MaxChambers}), bullets : Opt({0, 2}),
     jam : Opt({0, 100}),
     min_mute_time : Opt({MinMuteFloor, MaxMuteCeil + 100}),
     max_mute_time : Opt({MinMuteFloor - 10, MaxMuteCeil})]

\* A GroupConfig that overrides nothing.
NoGroup ==
    [chambers |-> <<>>, bullets |-> <<>>, jam |-> <<>>,
     min_mute_time |-> <<>>, max_mute_time |-> <<>>]

\* SystemTime::now() in seconds since the epoch.
Clock == {0, 1700000000}

\* No mute drawn yet.
NoMute == [now |-> 0, duration |-> 0, until |-> 0]

\* enum FireResult
FireResult == {"Empty", "Bullet", "Jammed", "NoBullets"}

VARIABLES
    cfg,        \* the RouletteConfig handed to start
    err,        \* outcome of RouletteConfig::start: "pending", "ok" or the Err
    group_data, \* the rooms that own a Roulette
    contents,   \* contents[r]: Roulette.contents of room r
    position,   \* position[r]: Roulette.position of room r
    results,    \* results[r]: what fire returned on r since its last reload
    loads,      \* loads[r]: number of reloads of r so far
    lastOp,     \* lastOp[r]: the last operation applied to r's Roulette
    checked,    \* the whitelisted groups init_group_data has gone through
    locked,     \* locked[r]: the permit of r's tokio Mutex is taken
    history,    \* history[r]: what the tasks did to r's Mutex and Roulette,
                \* in the order they did it
    pc,         \* pc[t]: the await the spawned task t is at; "reply" is the
                \* last one, the send_message of the reply, "done" a return
                \* of None, "panicked" the unwrap of a missing group
    kind,       \* kind[t]: the command of t, "roulette" or "peek"
    room,       \* room[t]: msg.chat.id of t
    result,     \* result[t]: the FireResult t ends with
    reloaded,   \* reloaded[t]: t took the reload branch
    nfire,      \* nfire[t]: calls of fire by t
    trace,      \* trace[t]: the path of t's invocation
    shot,       \* shot[t]: the (load, index) of the chamber t consumed
    muted,      \* muted[t]: t issued restrict_chat_member
    guard,      \* guard[t]: t's MutexGuard `roulette` is alive
    group,      \* the GroupConfig handed to resolve
    resolved,   \* what resolve returned, <<>> before the call
    mute        \* what random_mute_until returned, NoMute before the call

cfgVars == <<cfg, group, resolved, mute>>
revVars == <<cfgVars, err, group_data, contents, position, results, loads, lastOp>>
lockVars == <<checked, locked, history>>
taskVars == <<pc, kind, room, result, reloaded, nfire, trace, shot, muted, guard>>
vars == <<revVars, lockVars, taskVars>>

\* ------------------------------------------------------------- lib.rs
\* The sanity check of RouletteConfig::start: "ok" or the first Err returned.
StartCheckMuteFirst(c) ==
    IF c.min_mute_time < MinMuteFloor THEN "min_mute_too_small"
    ELSE IF c.max_mute_time > MaxMuteCeil THEN "max_mute_too_large"
    ELSE IF c.min_mute_time > c.max_mute_time THEN "min_exceeds_max"
    ELSE IF c.chambers <= 0 THEN "chambers_not_positive"
    ELSE IF c.bullets <= 0 THEN "bullets_not_positive"
    ELSE IF c.bullets > c.chambers THEN "bullets_exceed_chambers"
    ELSE "ok"

StartCheck(c) ==
    IF c.chambers <= 0 THEN "chambers_not_positive"
    ELSE IF c.bullets <= 0 THEN "bullets_not_positive"
    ELSE IF c.bullets > c.chambers THEN "bullets_exceed_chambers"
    ELSE IF c.min_mute_time < MinMuteFloor THEN "min_mute_too_small"
    ELSE IF c.max_mute_time > MaxMuteCeil THEN "max_mute_too_large"
    ELSE IF c.min_mute_time > c.max_mute_time THEN "min_exceeds_max"
    ELSE "ok"

\* Option::unwrap_or
UnwrapOr(o, d) == IF o = <<>> THEN d ELSE o[1]

\* GroupConfig::resolve
ResolveBulletsFromChambers(g, default) ==
    [chambers |-> UnwrapOr(g.chambers, default.chambers),
     bullets |-> UnwrapOr(g.bullets, default.chambers),
     jam |-> UnwrapOr(g.jam, default.jam),
     min_mute_time |-> UnwrapOr(g.min_mute_time, default.min_mute_time),
     max_mute_time |-> UnwrapOr(g.max_mute_time, default.max_mute_time)]

Resolve(g, default) ==
    [chambers |-> UnwrapOr(g.chambers, default.chambers),
     bullets |-> UnwrapOr(g.bullets, default.bullets),
     jam |-> UnwrapOr(g.jam, default.jam),
     min_mute_time |-> UnwrapOr(g.min_mute_time, default.min_mute_time),
     max_mute_time |-> UnwrapOr(g.max_mute_time, default.max_mute_time)]

\* rng.random_range(self.min_mute_time..=self.max_mute_time)
MuteDurationsFromFloor(c) == MinMuteFloor..c.max_mute_time

MuteDurations(c) == c.min_mute_time..c.max_mute_time

\* RouletteConfig::random_mute_until at the clock value now: the
\* (duration, now + duration) pairs it can return.
RandomMuteUntil(c, now) ==
    {[now |-> now, duration |-> d, until |-> now + d] : d \in MuteDurations(c)}

\* vec![false; n]
Blank(n) == [i \in 1..n |-> FALSE]

\* rand::seq::index::sample(rng, length, amount): every set of `amount`
\* distinct indices of 0..length-1 (here 1..length).
Sample(length, amount) ==
    {S \in SUBSET (1..length) : Cardinality(S) = amount}

\* Roulette::peek on (contents c, position p): <<filled, left>>.
PeekFromNext(c, p) ==
    <<Cardinality({i \in (p + 2)..Len(c) : c[i]}), Len(c) - p>>

Peek(c, p) ==
    <<Cardinality({i \in (p + 1)..Len(c) : c[i]}), Len(c) - p>>

\* rng.random_bool(p): the values the Bernoulli draw can take.
RandomBool(jam) ==
    IF jam = 0 THEN {FALSE} ELSE IF jam = 100 THEN {TRUE} ELSE {TRUE, FALSE}

\* Roulette::reload, contents: fill(false), then contents[i] = true for the
\* sampled indices. The set of contents a reload of c can produce.
ReloadKeepsOld(c, bullets) ==
    {[i \in 1..Len(c) |-> c[i] \/ i \in selected] :
        selected \in Sample(Len(c), bullets)}

ReloadLoadsNone(c, bullets) == {[i \in 1..Len(c) |-> FALSE]}

ReloadContents(c, bullets) ==
    {[i \in 1..Len(c) |-> i \in selected] :
        selected \in Sample(Len(c), bullets)}

\* Roulette::reload on room r, whose contents before the call are c.
Reload(r, c, t) ==
    \E loaded \in ReloadContents(c, cfg.bullets) :
        /\ position' = [position EXCEPT ![r] = 0]
        /\ contents' = [contents EXCEPT ![r] = loaded]
        /\ results' = [results EXCEPT ![r] = <<>>]
        /\ loads' = [loads EXCEPT ![r] = @ + 1]
        /\ lastOp' = [lastOp EXCEPT ![r] =
                         [op |-> "reload", result |-> "none", seen |-> <<0, 0>>,
                          contents |-> c, position |-> position[r],
                          by |-> t, guard |-> locked[r]]]

\* Roulette::fire on (contents c, position p) when the jam draw is `jammed`:
\* the new position and the FireResult.
FireStepLeft(c, p, jammed) ==
    IF Peek(c, p)[2] = 0 THEN [position |-> p, result |-> "NoBullets"]
    ELSE IF jammed THEN [position |-> p, result |-> "Jammed"]
    ELSE [position |-> p + 1,
          result |-> IF c[p + 1] THEN "Bullet" ELSE "Empty"]

FireStepJamFirst(c, p, jammed) ==
    IF jammed THEN [position |-> p, result |-> "Jammed"]
    ELSE IF Peek(c, p)[1] = 0 THEN [position |-> p, result |-> "NoBullets"]
    ELSE [position |-> p + 1,
          result |-> IF c[p + 1] THEN "Bullet" ELSE "Empty"]

FireStepNoAdvance(c, p, jammed) ==
    IF Peek(c, p)[1] = 0 THEN [position |-> p, result |-> "NoBullets"]
    ELSE IF jammed THEN [position |-> p, result |-> "Jammed"]
    ELSE [position |-> p,
          result |-> IF c[p + 1] THEN "Bullet" ELSE "Empty"]

FireStepJamAdvances(c, p, jammed) ==
    IF Peek(c, p)[1] = 0 THEN [position |-> p, result |-> "NoBullets"]
    ELSE IF jammed THEN [position |-> p + 1, result |-> "Jammed"]
    ELSE [position |-> p + 1,
          result |-> IF c[p + 1] THEN "Bullet" ELSE "Empty"]

FireStepNoCheck(c, p, jammed) ==
    IF jammed THEN [position |-> p, result |-> "Jammed"]
    ELSE [position |-> p + 1,
          result |-> IF p < Len(c) /\ c[p + 1] THEN "Bullet" ELSE "Empty"]

FireStepReadsNext(c, p, jammed) ==
    IF Peek(c, p)[1] = 0 THEN [position |-> p, result |-> "NoBullets"]
    ELSE IF jammed THEN [position |-> p, result |-> "Jammed"]
    ELSE [position |-> p + 1,
          result |-> IF p + 1 < Len(c) /\ c[p + 2] THEN "Bullet" ELSE "Empty"]

FireStepSkips(c, p, jammed) ==
    IF Peek(c, p)[1] = 0 THEN [position |-> p, result |-> "NoBullets"]
    ELSE IF jammed THEN [position |-> p, result |-> "Jammed"]
    ELSE [position |-> IF p + 2 <= Len(c) THEN p + 2 ELSE p + 1,
          result |-> IF c[p + 1] THEN "Bullet" ELSE "Empty"]

FireStep(c, p, jammed) ==
    IF Peek(c, p)[1] = 0 THEN [position |-> p, result |-> "NoBullets"]
    ELSE IF jammed THEN [position |-> p, result |-> "Jammed"]
    ELSE [position |-> p + 1,
          result |-> IF c[p + 1] THEN "Bullet" ELSE "Empty"]

\* What fire leaves in contents (c before the call, at position p, returning
\* out): it reads contents[position] and assigns position only.
FireUnloads(c, p, out) ==
    IF out.position > p THEN [c EXCEPT ![p + 1] = FALSE] ELSE c

FireContents(c, p, out) == c

\* Rng::random_bool(p) panics when p is not in [0, 1].
DrawPanics(jam) == jam \notin 0..100

\* Roulette::fire on room r, returning `out`; the result "Panic" is the
\* panic of random_bool, which is reached only past the exhaustion check.
Fire(r, out, t) ==
    /\ IF Peek(contents[r], position[r])[1] # 0 /\ DrawPanics(cfg.jam)
       THEN out = [position |-> position[r], result |-> "Panic"]
       ELSE \E jammed \in RandomBool(cfg.jam) :
                out = FireStep(contents[r], position[r], jammed)
    /\ position' = [position EXCEPT ![r] = out.position]
    /\ results' = [results EXCEPT ![r] = Append(@, out.result)]
    /\ lastOp' = [lastOp EXCEPT ![r] =
                     [op |-> "fire", result |-> out.result, seen |-> <<0, 0>>,
                      contents |-> contents[r], position |-> position[r],
                      by |-> t, guard |-> locked[r]]]
    /\ contents' = [contents EXCEPT ![r] = FireContents(@, position[r], out)]
    /\ UNCHANGED loads

FireOut == [position : 0..MaxChambers + 1, result : FireResult \cup {"Panic"}]

NoOp ==
    [op |-> "none", result |-> "none", seen |-> <<0, 0>>, contents |-> <<>>,
     position |-> 0, by |-> 0, guard |-> FALSE]

\* No (load, index) yet.
NoShot == [load |-> 0, index |-> 0]

\* The thread that owned r's Roulette panicked in fire.
Panicked(r) == lastOp[r].op = "fire" /\ lastOp[r].result = "Panic"

\* ------------------------------------------------- sequential harness
\* RouletteConfig::start on the harness's config: the sanity check, then
\* a Roulette of blank contents, reloaded.
StartGame ==
    /\ err = "pending"
    /\ err' = StartCheck(cfg)
    /\ IF StartCheck(cfg) = "ok"
       THEN /\ group_data' = group_data \cup {TestRoom}
            /\ Reload(TestRoom, Blank(cfg.chambers), 0)
       ELSE UNCHANGED <<group_data, contents, position, results, loads, lastOp>>
    /\ UNCHANGED <<cfgVars, lockVars, taskVars>>

\* roulette.reload() called directly, as tests::test_restart does.
RevReload ==
    /\ TestRoom \in group_data
    /\ ~Panicked(TestRoom)
    /\ loads[TestRoom] <= MaxReloads
    /\ Reload(TestRoom, contents[TestRoom], 0)
    /\ UNCHANGED <<cfgVars, err, group_data, lockVars, taskVars>>

\* roulette.fire() called directly, as tests::test_fire does.
RevFire ==
    /\ TestRoom \in group_data
    /\ ~Panicked(TestRoom)
    /\ Len(results[TestRoom]) < MaxFires
    /\ \E out \in FireOut : Fire(TestRoom, out, 0)
    /\ UNCHANGED <<cfgVars, err, group_data, lockVars, taskVars>>

\* roulette.peek() called directly.
RevPeek ==
    /\ TestRoom \in group_data
    /\ ~Panicked(TestRoom)
    /\ lastOp[TestRoom].op # "peek"
    /\ lastOp' = [lastOp EXCEPT ![TestRoom] =
                     [op |-> "peek",
                      result |-> "none",
                      seen |-> Peek(contents[TestRoom], position[TestRoom]),
                      contents |-> contents[TestRoom],
                      position |-> position[TestRoom],
                      by |-> 0, guard |-> locked[TestRoom]]]
    /\ UNCHANGED <<cfgVars, err, group_data, contents, position, results, loads>>
    /\ UNCHANGED <<lockVars, taskVars>>

\* Before anything ran: no Roulette, no task spawned.
InitRev ==
    /\ cfg \in RouletteConfig
    /\ err = "pending"
    /\ group_data = {}
    /\ contents = [r \in Rooms |-> <<>>]
    /\ position = [r \in Rooms |-> 0]
    /\ results = [r \in Rooms |-> <<>>]
    /\ loads = [r \in Rooms |-> 0]
    /\ lastOp = [r \in Rooms |-> NoOp]
    /\ checked = {}
    /\ locked = [r \in Rooms |-> FALSE]
    /\ history = [r \in Rooms |-> <<>>]
    /\ pc = [t \in Tasks |-> "idle"]
    /\ kind = [t \in Tasks |-> "none"]
    /\ room = [t \in Tasks |-> 0]
    /\ result = [t \in Tasks |-> "none"]
    /\ reloaded = [t \in Tasks |-> FALSE]
    /\ nfire = [t \in Tasks |-> 0]
    /\ trace = [t \in Tasks |-> <<>>]
    /\ shot = [t \in Tasks |-> NoShot]
    /\ muted = [t \in Tasks |-> FALSE]
    /\ guard = [t \in Tasks |-> FALSE]
    /\ group = NoGroup
    /\ resolved = <<>>
    /\ mute = NoMute

NextRev == StartGame \/ RevReload \/ RevFire \/ RevPeek

SpecRev == InitRev /\ [][NextRev]_vars

\* ------------------------------------------------- config functions
\* group.resolve(&config) for a GroupConfig of the config file.
ResolveGroup ==
    /\ resolved = <<>>
    /\ mute = NoMute
    /\ \E g \in GroupConfig :
         /\ group' = g
         /\ resolved' = <<Resolve(g, cfg)>>
    /\ UNCHANGED <<cfg, mute, err, group_data, contents, position, results,
                   loads, lastOp, lockVars, taskVars>>

\* config.random_mute_until() on a config that start accepted.
DrawMute ==
    /\ resolved = <<>>
    /\ mute = NoMute
    /\ StartCheck(cfg) = "ok"
    /\ \E now \in Clock : mute' \in RandomMuteUntil(cfg, now)
    /\ UNCHANGED <<cfg, group, resolved, err, group_data, contents, position,
                   results, loads, lastOp, lockVars, taskVars>>

NextCfg == ResolveGroup \/ DrawMute

SpecCfg == InitRev /\ [][NextCfg]_vars

\* ------------------------------------------------- main.rs, commands/
\* One iteration of init_group_data's loop over the whitelist: the chat
\* lookups decide whether the group is eligible; an eligible group gets
\* game.start() and, when that is Ok, an entry in group_data.
Provision(r) ==
    /\ r \notin checked
    /\ checked' = checked \cup {r}
    /\ \E eligible \in BOOLEAN :
         IF eligible
         THEN /\ err' = StartCheck(cfg)
              /\ IF StartCheck(cfg) = "ok"
                 THEN /\ group_data' = group_data \cup {r}
                      /\ Reload(r, Blank(cfg.chambers), 0)
                 ELSE UNCHANGED <<group_data, contents, position, results,
                                  loads, lastOp>>
         ELSE UNCHANGED <<err, group_data, contents, position, results,
                          loads, lastOp>>
    /\ UNCHANGED <<cfgVars, locked, history, taskVars>>

\* What bot.get_chat_member tells RouletteCommand::execute about the sender.
Members == {"error", "admin", "member"}

\* tokio::spawn for the t-th command, received from the whitelisted chat r:
\* group_data.get(&chat_id).unwrap(), then Commands::execute up to the
\* lock: the peek command goes straight to it, the roulette command only
\* when get_chat_member answers and the sender is no admin.
Spawn(t, r, k, member) ==
    /\ checked = Rooms
    /\ pc[t] = "idle"
    /\ t > 1 => pc[t - 1] # "idle"
    /\ kind' = [kind EXCEPT ![t] = k]
    /\ room' = [room EXCEPT ![t] = r]
    /\ pc' = [pc EXCEPT ![t] =
                 IF r \notin group_data THEN "panicked"
                 ELSE IF k = "peek" THEN "lock"
                 ELSE CASE member = "error" -> "done"
                        [] member = "admin" -> "reply"
                        [] OTHER -> "lock"]
    /\ UNCHANGED <<revVars, lockVars, result, reloaded, nfire, trace, shot,
                   muted, guard>>

\* Mutex::lock().await resumes only when the permit is free.
CanAcquireAlways(r) == TRUE

CanAcquireGlobal(r) == \A q \in Rooms : ~locked[q]

CanAcquire(r) == ~locked[r]

\* One step of task t on a room: taking the guard ("lock"), a call of fire,
\* reload or peek through it, dropping it ("unlock").
Entry(t, op, res) == [by |-> t, op |-> op, result |-> res]

\* The guard is dropped by a return of execute; it stays alive while
\* restrict_chat_member is awaited.
Dropped(t, next) ==
    IF next = "restrict" THEN <<>> ELSE <<Entry(t, "unlock", "")>>

\* roulette.lock().await
LockRoom(t) ==
    /\ pc[t] = "lock"
    /\ CanAcquire(room[t])
    /\ locked' = [locked EXCEPT ![room[t]] = TRUE]
    /\ pc' = [pc EXCEPT ![t] = IF kind[t] = "roulette" THEN "fire" ELSE "peek"]
    /\ guard' = [guard EXCEPT ![t] = TRUE]
    /\ trace' = [trace EXCEPT ![t] = <<"Start">>]
    /\ history' = [history EXCEPT ![room[t]] = Append(@, Entry(t, "lock", ""))]
    /\ UNCHANGED <<revVars, checked, kind, room, result, reloaded, nfire,
                   shot, muted>>

\* The (load, index) a fire consumed, NoShot when it consumed nothing.
ShotOf(r, out) ==
    IF out.position = position[r] THEN NoShot
    ELSE [load |-> loads[r], index |-> position[r]]

\* `if result { restrict_chat_member(..).await } else { return Some(..) }`:
\* only Bullet is the `true` of the older Option<bool>. Where the task is
\* next: awaiting restrict_chat_member, or returned and awaiting the reply.
AfterResultMutesJam(res) ==
    IF res \in {"Bullet", "Jammed"} THEN "restrict" ELSE "reply"

AfterResult(res) == IF res = "Bullet" THEN "restrict" ELSE "reply"

\* The guard `roulette` is a local of execute: alive while the task awaits
\* restrict_chat_member, dropped by every return (to the reply "reply", or
\* with None "done").
GuardLeaksOnError(next) == next \in {"restrict", "done"}

GuardAlive(next) == next = "restrict"

\* roulette.fire() returned None: the gun is to be reloaded.
NeedsReloadOnJam(res) == res \in {"NoBullets", "Jammed"}

NeedsReloadOnEmpty(res) == res \in {"NoBullets", "Empty"}

NeedsReload(res) == res = "NoBullets"

\* The path of the invocation after a fire that gave a result; execute
\* returns, and `Done` is reached, unless restrict_chat_member is awaited.
Fired(res) ==
    IF AfterResult(res) = "restrict" THEN <<"Fired">> ELSE <<"Fired", "Done">>

\* match roulette.fire() { Some(result) => .., None => { reload; notify } }:
\* from the lock to the next await or return. With a result the task goes
\* on to `if result`; with None it replaces the Roulette by a freshly
\* started one and awaits the send_message of the reload notice. The guard
\* `roulette` lives to the end of execute: it is held across both awaits
\* and dropped by a return.
FireFirst(t) ==
    /\ pc[t] = "fire"
    /\ \E out \in FireOut :
         /\ nfire' = [nfire EXCEPT ![t] = @ + 1]
         /\ IF ~NeedsReload(out.result)
            THEN /\ Fire(room[t], out, t)
                 /\ result' = [result EXCEPT ![t] = out.result]
                 /\ shot' = [shot EXCEPT ![t] = ShotOf(room[t], out)]
                 /\ pc' = [pc EXCEPT ![t] = AfterResult(out.result)]
                 /\ muted' = [muted EXCEPT ![t] =
                                 AfterResult(out.result) = "restrict"]
                 /\ guard' = [guard EXCEPT ![t] =
                                 GuardAlive(AfterResult(out.result))]
                 /\ locked' = [locked EXCEPT ![room[t]] =
                                  GuardAlive(AfterResult(out.result))]
                 /\ trace' = [trace EXCEPT ![t] = @ \o Fired(out.result)]
                 /\ history' = [history EXCEPT ![room[t]] =
                        @ \o <<Entry(t, "fire", out.result)>>
                          \o Dropped(t, AfterResult(out.result))]
                 /\ UNCHANGED reloaded
            ELSE /\ \E jammed \in RandomBool(cfg.jam) :
                       out = FireStep(contents[room[t]], position[room[t]],
                                      jammed)
                 /\ Reload(room[t], Blank(cfg.chambers), t)
                 /\ reloaded' = [reloaded EXCEPT ![t] = TRUE]
                 /\ pc' = [pc EXCEPT ![t] = "notify"]
                 /\ trace' = [trace EXCEPT ![t] =
                        @ \o <<IF out.result = "NoBullets" THEN "Exhausted"
                               ELSE "Fired", "Reloaded">>]
                 /\ history' = [history EXCEPT ![room[t]] =
                        @ \o <<Entry(t, "fire", out.result),
                               Entry(t, "reload", "")>>]
                 /\ UNCHANGED <<result, shot, muted, guard, locked>>
    /\ UNCHANGED <<cfgVars, err, group_data, checked, kind, room>>

\* bot.send_message(reload notice).await returns, Ok or Err alike, then
\* `let Some(result) = roulette.fire() else { return Some(..) }` and, with a
\* result, `if result`.
FireAgain(t) ==
    /\ pc[t] = "notify"
    /\ \E out \in FireOut :
         /\ Fire(room[t], out, t)
         /\ result' = [result EXCEPT ![t] = out.result]
         /\ shot' = [shot EXCEPT ![t] = ShotOf(room[t], out)]
         /\ IF out.result = "NoBullets"
            THEN /\ pc' = [pc EXCEPT ![t] = "reply"]
                 /\ guard' = [guard EXCEPT ![t] = FALSE]
                 /\ locked' = [locked EXCEPT ![room[t]] = FALSE]
                 /\ trace' = [trace EXCEPT ![t] =
                                 @ \o <<"Exhausted", "Stalled", "Done">>]
                 /\ history' = [history EXCEPT ![room[t]] =
                        @ \o <<Entry(t, "fire", out.result)>>
                          \o Dropped(t, "reply")]
                 /\ UNCHANGED muted
            ELSE /\ pc' = [pc EXCEPT ![t] = AfterResult(out.result)]
                 /\ muted' = [muted EXCEPT ![t] =
                                 AfterResult(out.result) = "restrict"]
                 /\ guard' = [guard EXCEPT ![t] =
                                 GuardAlive(AfterResult(out.result))]
                 /\ locked' = [locked EXCEPT ![room[t]] =
                                  GuardAlive(AfterResult(out.result))]
                 /\ trace' = [trace EXCEPT ![t] = @ \o Fired(out.result)]
                 /\ history' = [history EXCEPT ![room[t]] =
                        @ \o <<Entry(t, "fire", out.result)>>
                          \o Dropped(t, AfterResult(out.result))]
    /\ nfire' = [nfire EXCEPT ![t] = @ + 1]
    /\ UNCHANGED <<cfgVars, err, group_data, checked, kind, room, reloaded>>

\* bot.restrict_chat_member(..).await returns; Err returns None, Ok the
\* "is shot" reply; either return drops the guard.
RestrictReturn(t) ==
    /\ pc[t] = "restrict"
    /\ \E ok \in BOOLEAN :
         LET next == IF ok THEN "reply" ELSE "done"
         IN  /\ pc' = [pc EXCEPT ![t] = next]
             /\ locked' = [locked EXCEPT ![room[t]] = GuardAlive(next)]
             /\ guard' = [guard EXCEPT ![t] = GuardAlive(next)]
    /\ trace' = [trace EXCEPT ![t] = Append(@, "Done")]
    /\ history' = [history EXCEPT ![room[t]] = @ \o Dropped(t, "done")]
    /\ UNCHANGED <<revVars, checked, kind, room, result, reloaded, nfire,
                   shot, muted>>

\* PeekCommand::execute after the lock: peek, format the reply, return.
PeekRoom(t) ==
    /\ pc[t] = "peek"
    /\ lastOp' = [lastOp EXCEPT ![room[t]] =
                     [op |-> "peek",
                      result |-> "none",
                      seen |-> Peek(contents[room[t]], position[room[t]]),
                      contents |-> contents[room[t]],
                      position |-> position[room[t]],
                      by |-> t, guard |-> locked[room[t]]]]
    /\ locked' = [locked EXCEPT ![room[t]] = FALSE]
    /\ guard' = [guard EXCEPT ![t] = FALSE]
    /\ pc' = [pc EXCEPT ![t] = "reply"]
    /\ trace' = [trace EXCEPT ![t] = Append(@, "Done")]
    /\ history' = [history EXCEPT ![room[t]] =
           @ \o <<Entry(t, "peek", "")>> \o Dropped(t, "reply")]
    /\ UNCHANGED <<cfgVars, err, group_data, contents, position, results, loads,
                   checked, kind, room, result, reloaded, nfire, shot, muted>>

\* The configs the served bot is started with: chambers and bullets vary,
\* the gun never jams or may jam at every fire, the mute bounds are the
\* widest valid ones or too wide.
Init ==
    /\ InitRev
    /\ cfg.jam \in {0, 50}
    /\ cfg.min_mute_time = MinMuteFloor
    /\ cfg.max_mute_time \in {MaxMuteCeil, MaxMuteCeil + 1}

Next ==
    \/ \E r \in Rooms : Provision(r)
    \/ \E t \in Tasks, r \in Rooms, k \in {"roulette", "peek"}, m \in Members :
          Spawn(t, r, k, m)
    \/ \E t \in Tasks : LockRoom(t)
    \/ \E t \in Tasks : FireFirst(t)
    \/ \E t \in Tasks : FireAgain(t)
    \/ \E t \in Tasks : RestrictReturn(t)
    \/ \E t \in Tasks : PeekRoom(t)

Spec == Init /\ [][Next]_vars

\* The tokio runtime polls every task that is ready, its Mutex hands the
\* permit to a waiter whenever it is free, and the awaited Telegram calls
\* return: no step of a spawned task stays enabled for ever without being
\* taken. Every such step moves the task's pc.
Fairness ==
    \A t \in Tasks :
        /\ WF_pc(LockRoom(t))
        /\ WF_pc(FireFirst(t))
        /\ WF_pc(FireAgain(t))
        /\ WF_pc(RestrictReturn(t))
        /\ WF_pc(PeekRoom(t))

\* The bot started with one valid config: a gun of more than one chamber,
\* loaded with at least one bullet, that may jam or never jams.
InitLive ==
    /\ Init
    /\ cfg.chambers = MaxChambers - 1
    /\ cfg.bullets \in 1..cfg.chambers
    /\ cfg.max_mute_time = MaxMuteCeil

SpecLive == InitLive /\ [][Next]_vars /\ Fairness

\* ============================================================ properties
\* Number of loaded chambers of c.
Loaded(c) == Cardinality({i \in 1..Len(c) : c[i]})

\* 1-based index of the last loaded chamber of c, 0 when none is loaded.
LastLoaded(c) ==
    IF Loaded(c) = 0 THEN 0
    ELSE CHOOSE i \in 1..Len(c) :
            c[i] /\ \A j \in (i + 1)..Len(c) : ~c[j]

\* What firing chamber i of c reports.
Shot(c, i) == IF c[i] THEN "Bullet" ELSE "Empty"

\* How many entries of the sequence s equal x.
Count(s, x) == Cardinality({i \in 1..Len(s) : s[i] = x})

T == TestRoom

\* C1: immediately after any reload (the one of start, or a repeated one, or
\* one after some fires) contents has length chambers, exactly `bullets`
\* true entries, chambers - bullets false entries, and position is 0.
C1_ReloadLoadsExactlyK ==
    (T \in group_data /\ lastOp[T].op = "reload") =>
        /\ Len(contents[T]) = cfg.chambers
        /\ Loaded(contents[T]) = cfg.bullets
        /\ Cardinality({i \in 1..Len(contents[T]) : ~contents[T][i]})
               = cfg.chambers - cfg.bullets
        /\ position[T] = 0
        /\ 0 < cfg.bullets /\ cfg.bullets <= cfg.chambers

\* A third reload, applied to a revolver that had been fired and still held
\* a bullet of the previous load.
C1_Witness ==
    /\ T \in group_data /\ lastOp[T].op = "reload" /\ loads[T] = 3
    /\ lastOp[T].position > 0
    /\ Loaded(lastOp[T].contents) = 2 /\ cfg.bullets = 2 /\ cfg.chambers = 3
    /\ lastOp[T].contents # contents[T]

\* C2 as stated: with jam_probability 0 the first N fires after a reload
\* report the N chambers in index order (K Bullet, N-K Empty) and the
\* (N+1)-th reports NoBullets.
C2_Original ==
    (T \in group_data /\ cfg.jam = 0) =>
        \A i \in 1..Len(results[T]) :
            results[T][i] = IF i <= cfg.chambers THEN Shot(contents[T], i)
                            ELSE "NoBullets"

\* C2 amended: with jam_probability 0 the fires after a reload report the
\* chambers in index order up to and including the last loaded chamber
\* (exactly K Bullet once it is reached), and every later fire, the
\* (N+1)-th included, reports NoBullets; the empty chambers behind the last
\* loaded one are never fired.
C2_SequentialExhaustion ==
    (T \in group_data /\ cfg.jam = 0) =>
        /\ \A i \in 1..Len(results[T]) :
              results[T][i] = IF i <= LastLoaded(contents[T])
                              THEN Shot(contents[T], i) ELSE "NoBullets"
        /\ Len(results[T]) >= LastLoaded(contents[T]) =>
              /\ Count(results[T], "Bullet") = cfg.bullets
              /\ Count(results[T], "Empty")
                    = LastLoaded(contents[T]) - cfg.bullets
              /\ position[T] = LastLoaded(contents[T])
        /\ Len(results[T]) > cfg.chambers =>
              results[T][cfg.chambers + 1] = "NoBullets"

\* N + 1 fires on the pattern [false, true, false].
C2_Witness ==
    /\ T \in group_data /\ cfg.jam = 0
    /\ contents[T] = <<FALSE, TRUE, FALSE>>
    /\ results[T] = <<"Empty", "Bullet", "NoBullets", "NoBullets">>

\* C3: when no loaded chamber is left at an index >= position, fire returns
\* NoBullets and leaves position and contents as they were, and so does
\* every further fire until a reload, also when empty chambers are left.
C3_ExhaustedIsSticky ==
    T \in group_data =>
        /\ (lastOp[T].op = "fire"
               /\ Peek(lastOp[T].contents, lastOp[T].position)[1] = 0) =>
              /\ lastOp[T].result = "NoBullets"
              /\ position[T] = lastOp[T].position
              /\ contents[T] = lastOp[T].contents
        /\ \A i \in 1..Len(results[T]) : \A j \in i..Len(results[T]) :
              results[T][i] = "NoBullets" => results[T][j] = "NoBullets"
        /\ (\E i \in 1..Len(results[T]) : results[T][i] = "NoBullets") =>
              Peek(contents[T], position[T])[1] = 0

\* Two exhausted fires with an unconsumed empty chamber left, under a
\* config that can jam.
C3_Witness ==
    /\ T \in group_data /\ cfg.jam = 50
    /\ contents[T] = <<FALSE, TRUE, FALSE>> /\ position[T] = 2
    /\ lastOp[T].op = "fire" /\ lastOp[T].position = 2
    /\ Len(results[T]) >= 4
    /\ results[T][Len(results[T])] = "NoBullets"
    /\ results[T][Len(results[T]) - 1] = "NoBullets"

\* C4: a fire that returns Jammed leaves position and contents as they were;
\* with jam_probability 1 every fire after a reload returns Jammed and peek
\* keeps returning (bullets, chambers).
C4_JamConsumesNothing ==
    T \in group_data =>
        /\ (lastOp[T].op = "fire" /\ lastOp[T].result = "Jammed") =>
              /\ position[T] = lastOp[T].position
              /\ contents[T] = lastOp[T].contents
        /\ position[T] = Count(results[T], "Bullet") + Count(results[T], "Empty")
        /\ cfg.jam = 100 =>
              /\ \A i \in 1..Len(results[T]) : results[T][i] = "Jammed"
              /\ Peek(contents[T], position[T]) = <<cfg.bullets, cfg.chambers>>

\* jam_probability 1 and MaxFires fires, all jammed.
C4_Witness ==
    /\ T \in group_data /\ cfg.jam = 100
    /\ Len(results[T]) = MaxFires
    /\ lastOp[T].op = "fire" /\ lastOp[T].result = "Jammed"

\* ------------------------------------------------ the served rooms
\* The roulette triggers that went through the lock of room r.
Players(r) == {t \in Tasks : kind[t] = "roulette" /\ room[t] = r /\ nfire[t] > 0}

\* The invocation of t has returned.
Finished(t) == trace[t] # <<>> /\ trace[t][Len(trace[t])] = "Done"

\* The tasks that consumed a chamber of load l of room r.
Shooters(r, l) == {t \in Players(r) : shot[t] # NoShot /\ shot[t].load = l}

\* Every task is a roulette trigger on room r that has fired and returned.
AllFiredOn(r) ==
    /\ r \in group_data
    /\ Players(r) = Tasks
    /\ \A t \in Tasks : Finished(t)

\* C5 as stated: with jam_probability 0, when as many triggers as there are
\* chambers have fired on one room, each chamber was consumed exactly once
\* and the outcomes are the loaded pattern, K Bullet and N-K Empty.
C5_Original ==
    \A r \in Rooms :
        (AllFiredOn(r) /\ cfg.jam = 0 /\ NumTasks = cfg.chambers) =>
            /\ loads[r] = 1
            /\ position[r] = cfg.chambers
            /\ Cardinality({t \in Tasks : result[t] = "Bullet"}) = cfg.bullets
            /\ Cardinality({t \in Tasks : result[t] = "Empty"})
                  = cfg.chambers - cfg.bullets

\* C5 amended: with jam_probability 0, concurrent triggers on one room
\* consume the chambers of a load in index order, each at most once, and
\* every trigger reports the chamber it consumed; a load is consumed only up
\* to and including its last loaded chamber: the trigger that finds no loaded
\* chamber left reloads and consumes chamber 0 of the new load, so a load
\* that was replaced gave exactly K Bullet and nothing behind its last
\* loaded chamber.
C5_NoDoubleConsumption ==
    \A r \in group_data :
        cfg.jam = 0 =>
            /\ \A t, u \in Players(r) :
                  (t # u /\ shot[t] # NoShot) => shot[t] # shot[u]
            /\ \A t \in Players(r) :
                  Finished(t) =>
                      /\ shot[t] # NoShot
                      /\ result[t] \in {"Bullet", "Empty"}
            /\ {shot[t].index : t \in Shooters(r, loads[r])}
                  = 0..(position[r] - 1)
            /\ \A t \in Shooters(r, loads[r]) :
                  result[t] = Shot(contents[r], shot[t].index + 1)
            /\ position[r] <= LastLoaded(contents[r])
            /\ \A l \in 1..(loads[r] - 1) :
                  /\ {shot[t].index : t \in Shooters(r, l)}
                        = 0..(Cardinality(Shooters(r, l)) - 1)
                  /\ Cardinality({t \in Shooters(r, l) : result[t] = "Bullet"})
                        = cfg.bullets
                  /\ \E t \in Shooters(r, l) :
                        /\ result[t] = "Bullet"
                        /\ shot[t].index = Cardinality(Shooters(r, l)) - 1

\* Every trigger fired on one room of as many chambers as there are
\* triggers, and the last of them had to reload.
C5_Witness ==
    \E r \in Rooms :
        /\ AllFiredOn(r) /\ cfg.jam = 0 /\ NumTasks = cfg.chambers
        /\ loads[r] = 2 /\ position[r] = 1
        /\ Cardinality(Shooters(r, 1)) = NumTasks - 1

\* The tasks that own the guard of room r.
Holders(r) == {t \in Tasks : room[t] = r /\ guard[t]}

\* C6: for each room at most one task owns the guard at a time, the permit
\* is taken exactly while a task owns it, and every fire, reload and peek of
\* a task on the room's Roulette ran with the permit taken.
C6_MutualExclusion ==
    \A r \in Rooms :
        /\ Cardinality(Holders(r)) <= 1
        /\ locked[r] <=> Holders(r) # {}
        /\ lastOp[r].by # 0 => lastOp[r].guard
        /\ \A t \in Tasks : pc[t] \in {"fire", "peek", "notify", "restrict"}
                               => guard[t]

\* One task reloaded a room and owns its guard while the other task waits
\* for the lock of the same room.
C6_Witness ==
    \E t, u \in Tasks :
        /\ t # u /\ room[t] = room[u]
        /\ guard[t] /\ pc[t] = "notify" /\ lastOp[room[t]].by = t
        /\ pc[u] = "lock"

\* C7: no task owns a room's guard while it waits on an outgoing
\* send_message or restrict_chat_member call.
C7_NoGuardAcrossIO ==
    \A t \in Tasks : pc[t] \in {"notify", "restrict", "reply"} => ~guard[t]

\* The three paths of an invocation.
Paths ==
    {<<"Start", "Fired", "Done">>,
     <<"Start", "Exhausted", "Reloaded", "Fired", "Done">>,
     <<"Start", "Exhausted", "Reloaded", "Exhausted", "Stalled", "Done">>}

IsPrefix(s, q) == Len(s) <= Len(q) /\ \A i \in 1..Len(s) : s[i] = q[i]

\* C8: the path of a roulette invocation is a prefix of one of the three
\* paths; it reloads at most once, only after a first fire that returned
\* NoBullets, and fires at most twice.
C8_ThreePaths ==
    /\ \A t \in Tasks :
          kind[t] = "roulette" =>
              /\ \E q \in Paths : IsPrefix(trace[t], q)
              /\ Count(trace[t], "Reloaded") <= 1
              /\ nfire[t] <= 2
              /\ nfire[t] = Count(trace[t], "Fired") + Count(trace[t], "Exhausted")
              /\ reloaded[t] <=> Count(trace[t], "Reloaded") = 1
              /\ reloaded[t] => (Len(trace[t]) >= 2 /\ trace[t][2] = "Exhausted")
    /\ \A r \in group_data :
          loads[r] = 1 + Cardinality({t \in Tasks : room[t] = r /\ reloaded[t]})

\* A trigger went Start, Exhausted, Reloaded, Fired, Done and another one
\* Start, Fired, Done.
C8_Witness ==
    \E t, u \in Tasks :
        /\ trace[t] = <<"Start", "Exhausted", "Reloaded", "Fired", "Done">>
        /\ nfire[t] = 2
        /\ trace[u] = <<"Start", "Fired", "Done">>

\* C9: a trigger that finds the room exhausted reloads exactly once and ends
\* with Empty, Bullet or Jammed and reloaded = true; the fire after the
\* reload never returns NoBullets, so no invocation is ever Stalled.
C9_ReloadThenFired ==
    \A t \in Tasks :
        /\ Count(trace[t], "Stalled") = 0
        /\ (kind[t] = "roulette" /\ Len(trace[t]) >= 2
              /\ trace[t][2] = "Exhausted") =>
              /\ reloaded[t]
              /\ Count(trace[t], "Reloaded") = 1
              /\ Count(trace[t], "Exhausted") = 1
              /\ nfire[t] = 2 =>
                    /\ result[t] \in {"Empty", "Bullet", "Jammed"}
                    /\ lastOp[room[t]].by = t => lastOp[room[t]].op = "fire"
              /\ Finished(t) => nfire[t] = 2
        /\ (pc[t] = "notify") =>
              Peek(contents[room[t]], position[room[t]])
                 = <<cfg.bullets, cfg.chambers>>

\* A trigger on an exhausted room of 2 bullets reloaded and was then jammed.
C9_Witness ==
    \E t \in Tasks :
        /\ Finished(t) /\ reloaded[t] /\ result[t] = "Jammed"
        /\ cfg.bullets = 2 /\ nfire[t] = 2

\* The six constraints of the data model, in the order the claim lists them.
Holds(c) ==
    <<c.chambers > 0, c.bullets > 0, c.bullets <= c.chambers,
      c.min_mute_time >= 30, c.max_mute_time <= 3600,
      c.min_mute_time <= c.max_mute_time>>

ErrorOf ==
    <<"chambers_not_positive", "bullets_not_positive",
      "bullets_exceed_chambers", "min_mute_too_small", "max_mute_too_large",
      "min_exceeds_max">>

Violated(c) == {i \in 1..6 : ~Holds(c)[i]}

\* C10: start fails with the error of the first violated constraint in the
\* order chambers>0, bullets>0, bullets<=chambers, min>=30, max<=3600,
\* min<=max; on failure no Roulette exists, and when all six hold a
\* Roulette is returned.
C10_FirstViolatedConstraint ==
    err # "pending" =>
        /\ Violated(cfg) # {} =>
              /\ \E i \in Violated(cfg) :
                    /\ \A j \in Violated(cfg) : i <= j
                    /\ err = ErrorOf[i]
              /\ group_data = {}
              /\ contents[T] = <<>>
        /\ Violated(cfg) = {} => (err = "ok" /\ T \in group_data)

\* A config that violates three constraints at once is rejected for the
\* first of them.
C10_Witness ==
    /\ err = "bullets_not_positive"
    /\ Violated(cfg) = {2, 4, 6}
    /\ group_data = {}

\* C11: a config attached to a Roulette satisfies chambers > 0,
\* 0 < bullets <= chambers, jam_probability in [0, 1] and
\* 30 <= min_mute_time <= max_mute_time <= 3600; a config that violates one
\* of them is rejected by start.
C11_ConfigInvariant ==
    /\ T \in group_data =>
          /\ cfg.chambers > 0
          /\ 0 < cfg.bullets /\ cfg.bullets <= cfg.chambers
          /\ 0 <= cfg.jam /\ cfg.jam <= 100
          /\ 30 <= cfg.min_mute_time
          /\ cfg.min_mute_time <= cfg.max_mute_time
          /\ cfg.max_mute_time <= 3600
    /\ (err # "pending" /\ (cfg.jam < 0 \/ cfg.jam > 100)) => err # "ok"

\* The fields of a config.
Fields == {"chambers", "bullets", "jam", "min_mute_time", "max_mute_time"}

\* C12: resolve returns, field by field, the override's value when it is
\* present and the base's value otherwise; an override of bullets alone
\* leaves the four other fields as in the base.
C12_ResolveFieldwise ==
    resolved # <<>> =>
        /\ \A f \in Fields :
              /\ group[f] = <<>> => resolved[1][f] = cfg[f]
              /\ group[f] # <<>> => <<resolved[1][f]>> = group[f]
        /\ (\A f \in Fields \ {"bullets"} : group[f] = <<>>) =>
              \A f \in Fields \ {"bullets"} : resolved[1][f] = cfg[f]
        /\ DOMAIN resolved[1] = Fields

\* An override of bullets alone on a valid base: the other fields are the
\* base's and the unvalidated result has more bullets than chambers.
C12_Witness ==
    /\ resolved # <<>>
    /\ group = [NoGroup EXCEPT !.bullets = <<2>>]
    /\ StartCheck(cfg) = "ok" /\ cfg.chambers = 1
    /\ resolved[1].bullets > resolved[1].chambers
    /\ StartCheck(resolved[1]) = "bullets_exceed_chambers"

\* C13: for a valid config the drawn duration d is in
\* [min_mute_time, max_mute_time], so min = max gives min, and the expiry
\* is now + d for the same d.
C13_MuteBounds ==
    mute # NoMute =>
        /\ cfg.min_mute_time <= mute.duration
        /\ mute.duration <= cfg.max_mute_time
        /\ cfg.min_mute_time = cfg.max_mute_time =>
              mute.duration = cfg.min_mute_time
        /\ mute.until = mute.now + mute.duration
        /\ mute.until - mute.now >= 30 /\ mute.until - mute.now <= 3600

\* The closed upper end of a proper interval was drawn at a late clock.
C13_Witness ==
    /\ mute # NoMute /\ mute.now > 0
    /\ cfg.min_mute_time < cfg.max_mute_time
    /\ mute.duration = cfg.max_mute_time

\* C14: a command for a room without a registry entry (a whitelisted chat
\* that init_group_data skipped) is a no-op: the task handling it does not
\* crash, and no room's revolver is touched by it.
C14_MissingRoomIsNoOp ==
    \A t \in Tasks :
        (pc[t] # "idle" /\ room[t] \notin group_data) =>
            /\ pc[t] # "panicked"
            /\ \A r \in Rooms : lastOp[r].by # t

\* C15: a player is muted exactly when the outcome of the invocation is
\* Bullet: restrict_chat_member is issued for no Empty, Jammed or Stalled
\* outcome, for no peek, admin or failed membership query, and for every
\* Bullet.
C15_MuteIffBullet ==
    \A t \in Tasks :
        /\ muted[t] <=> result[t] = "Bullet"
        /\ pc[t] = "restrict" => muted[t]
        /\ muted[t] => kind[t] = "roulette" /\ shot[t] # NoShot

C15_Witness ==
    \E t, u \in Tasks :
        /\ Finished(t) /\ muted[t] /\ result[t] = "Bullet" /\ reloaded[t]
        /\ Finished(u) /\ ~muted[u] /\ result[u] = "Jammed"

\* The history is a sequence of whole invocations: a task takes the guard
\* at the start of the history or right after an unlock, and every other
\* step is by the task of the step before it, which still holds the guard.
Serial(h) ==
    \A i \in 1..Len(h) :
        IF h[i].op = "lock"
        THEN i = 1 \/ h[i - 1].op = "unlock"
        ELSE i > 1 /\ h[i - 1].by = h[i].by /\ h[i - 1].op # "unlock"

\* Index of the last reload of a history, 0 when there is none.
LastReload(h) ==
    LET R == {i \in 1..Len(h) : h[i].op = "reload"}
    IN  IF R = {} THEN 0 ELSE CHOOSE i \in R : \A j \in R : j <= i

\* The fires of a history since its last reload, in order.
FiresSince(h) ==
    SelectSeq(SubSeq(h, LastReload(h) + 1, Len(h)), LAMBDA e : e.op = "fire")

\* The last fire of task t in a history.
LastFireOf(h, t) ==
    LET F == {i \in 1..Len(h) : h[i].op = "fire" /\ h[i].by = t}
    IN  h[CHOOSE i \in F : \A j \in F : j <= i].result

\* C16: on one room the fires and reloads of concurrent invocations are those
\* of whole invocations run one after another in the order they took the
\* guard: no step of one invocation falls between the lock and the unlock
\* of another, and the revolver and every finished invocation's outcome are
\* what running the steps of the history in that order gives.
C16_SerialPerRoom ==
    \A r \in group_data :
        LET h == history[r]
            F == FiresSince(h)
        IN  /\ Serial(h)
            /\ loads[r] = 1 + Cardinality({i \in 1..Len(h) : h[i].op = "reload"})
            /\ results[r] = [i \in 1..Len(F) |-> F[i].result]
            /\ position[r] =
                   Cardinality({i \in 1..Len(F) :
                                   F[i].result \in {"Bullet", "Empty"}})
            /\ \A t \in Players(r) :
                   Finished(t) /\ kind[t] = "roulette" =>
                       result[t] = LastFireOf(h, t)

C16_Witness ==
    \E r \in group_data :
        LET h == history[r]
        IN  /\ Cardinality({i \in 1..Len(h) : h[i].op = "unlock"}) = NumTasks
            /\ \E i \in 1..Len(h) : h[i].op = "reload"
            /\ h[1].by # 1
            /\ \E t \in Tasks : kind[t] = "peek"

\* Everything the model keeps of room r.
RoomState(r) ==
    <<contents[r], position[r], results[r], loads[r], lastOp[r], locked[r],
      history[r]>>

\* A task that has a step to take on its room can take it: whoever waits for
\* a guard that no one holds gets it, and whoever holds the guard goes on,
\* whatever the tasks of the other rooms hold or wait for.
CanProceed(t) ==
    /\ pc[t] = "lock" /\ Holders(room[t]) = {} => ENABLED LockRoom(t)
    /\ pc[t] = "fire" => ENABLED FireFirst(t)
    /\ pc[t] = "notify" => ENABLED FireAgain(t)
    /\ pc[t] = "restrict" => ENABLED RestrictReturn(t)
    /\ pc[t] = "peek" => ENABLED PeekRoom(t)

\* A step changes the state of at most one room, and that of r only when it
\* is the provisioning of r or the step of a task whose command came from r.
OwnRoomOnly ==
    /\ \A r, q \in Rooms :
          r # q => RoomState(r)' = RoomState(r) \/ RoomState(q)' = RoomState(q)
    /\ \A r \in Rooms :
          RoomState(r)' # RoomState(r) =>
              \/ r \in checked' \ checked
              \/ \E t \in Tasks : room[t] = r /\ pc'[t] # pc[t]

\* C17: rooms are independent: a command on one room never changes the
\* revolver of another, and a task that holds or waits for the guard of one
\* room never keeps a task of another room from taking that room's guard and
\* running to its end.
C17_RoomsIndependent ==
    /\ [](\A t \in Tasks : CanProceed(t))
    /\ [][OwnRoomOnly]_vars

C17_Witness ==
    \E t, u, w \in Tasks :
        /\ room[t] # room[u]
        /\ guard[t] /\ pc[t] \in {"notify", "restrict"}
        /\ guard[u] /\ pc[u] \in {"notify", "restrict"}
        /\ pc[w] = "lock" /\ room[w] = room[t]

\* C18: a started revolver always has as many chambers as configured and a
\* position from 0 to that number, and fire reads a chamber only below it:
\* a fire at position = chambers returns NoBullets without reading.
C18_CursorInBounds ==
    T \in group_data =>
        /\ Len(contents[T]) = cfg.chambers
        /\ position[T] \in 0..cfg.chambers
        /\ lastOp[T].op = "fire" =>
              /\ lastOp[T].result \in {"Bullet", "Empty"} =>
                     lastOp[T].position < Len(lastOp[T].contents)
              /\ lastOp[T].position = Len(lastOp[T].contents) =>
                     lastOp[T].result = "NoBullets"

C18_Witness ==
    /\ T \in group_data
    /\ loads[T] > 1
    /\ position[T] = cfg.chambers
    /\ lastOp[T].op = "fire"
    /\ lastOp[T].position = cfg.chambers
    /\ lastOp[T].result = "NoBullets"

\* C19: peek returns left = chambers - position and filled = the number of
\* loaded chambers at indices >= position, which is the bullets loaded less
\* the bullets fired since the reload, (0, 0) at position = chambers, and
\* leaves position and contents as they were.
C19_PeekCounts ==
    (T \in group_data /\ lastOp[T].op = "peek") =>
        /\ lastOp[T].seen[2] = cfg.chambers - position[T]
        /\ lastOp[T].seen[1] =
               Cardinality({i \in 0..(cfg.chambers - 1) :
                               i >= position[T] /\ contents[T][i + 1]})
        /\ lastOp[T].seen[1] =
               Loaded(contents[T]) - Count(results[T], "Bullet")
        /\ position[T] = cfg.chambers => lastOp[T].seen = <<0, 0>>
        /\ lastOp[T].contents = contents[T]
        /\ lastOp[T].position = position[T]

C19_Witness ==
    /\ T \in group_data
    /\ lastOp[T].op = "peek"
    /\ cfg.chambers = MaxChambers
    /\ position[T] = cfg.chambers
    /\ lastOp[T].seen = <<0, 0>>

\* The results of the fires since the reload that consumed a chamber.
Consumed(s) == SelectSeq(s, LAMBDA x : x \in {"Bullet", "Empty"})

\* C20: a fire that is neither exhausted nor jammed moves position on by
\* exactly 1 and returns Bullet when the chamber at the old position is
\* loaded, Empty when not; between reloads the chambers are consumed in
\* index order 0, 1, 2, .. without a skip or a repeat.
C20_ConsumesInOrder ==
    T \in group_data =>
        /\ (lastOp[T].op = "fire" /\ lastOp[T].result \in {"Bullet", "Empty"}) =>
              /\ position[T] = lastOp[T].position + 1
              /\ contents[T] = lastOp[T].contents
              /\ lastOp[T].result = Shot(lastOp[T].contents, position[T])
        /\ Consumed(results[T]) =
               [i \in 1..position[T] |-> Shot(contents[T], i)]

C20_Witness ==
    /\ T \in group_data
    /\ position[T] = MaxChambers
    /\ lastOp[T].op = "fire" /\ lastOp[T].result = "Bullet"
    /\ Count(results[T], "Empty") > 0
    /\ Count(results[T], "Jammed") > 0
    /\ Count(results[T], "Bullet") = 2

\* C21: between two reloads contents never changes: after a fire, whatever it
\* returned, and after a peek every chamber is as it was before the call, so
\* the chambers already passed keep their loaded or unloaded identity; a step
\* that changes contents is a reload.
C21_OnlyReloadWrites ==
    /\ [](T \in group_data /\ lastOp[T].op \in {"fire", "peek"} =>
             contents[T] = lastOp[T].contents)
    /\ [][contents'[T] # contents[T] =>
             loads'[T] = loads[T] + 1 /\ lastOp'[T].op = "reload"]_vars

C21_Witness ==
    /\ T \in group_data
    /\ lastOp[T].op = "fire" /\ lastOp[T].result = "Bullet"
    /\ position[T] = MaxChambers
    /\ Loaded(contents[T]) = 2
    /\ contents[T][1] /\ contents[T][position[T]]
    /\ Count(results[T], "Jammed") > 0

\* C22: when the runtime is fair and the awaited calls return, every task
\* that asks for the guard of its room gets it, and every task that has the
\* guard returns from execute and drops it; no set of tasks on one room
\* blocks for ever.
C22_EveryTriggerCompletes ==
    \A t \in Tasks :
        /\ pc[t] = "lock" ~> guard[t]
        /\ guard[t] ~> (Finished(t) /\ ~guard[t])

C22_Witness ==
    \E r \in group_data :
        /\ \A t \in Tasks : room[t] = r /\ Finished(t) /\ kind[t] = "roulette"
        /\ ~locked[r]
        /\ \E t \in Tasks : reloaded[t] /\ muted[t] /\ pc[t] = "done"
        /\ history[r][1].by = NumTasks

\* What peek would return on the revolver under test: (filled, left).
Filled == Peek(contents[T], position[T])[1]
Left == Peek(contents[T], position[T])[2]

\* The step is a fire that returned res.
Returned(res) == results'[T] = Append(results[T], res)

\* C24: on a started revolver 0 <= filled <= bullets and filled <= left <=
\* chambers; between reloads neither grows, filled drops by 1 exactly at a
\* Bullet, left drops by 1 exactly at a Bullet or an Empty, and neither
\* drops by more.
C24_FilledAndLeft ==
    /\ [](T \in group_data =>
             /\ 0 <= Filled /\ Filled <= cfg.bullets
             /\ Filled <= Left /\ Left <= cfg.chambers)
    /\ [][(T \in group_data /\ loads'[T] = loads[T]) =>
             /\ Filled' \in {Filled - 1, Filled}
             /\ Left' \in {Left - 1, Left}
             /\ Filled' = Filled - 1 <=> Returned("Bullet")
             /\ Left' = Left - 1 <=> Returned("Bullet") \/ Returned("Empty")]_vars

C24_Witness ==
    /\ T \in group_data
    /\ cfg.bullets = 2
    /\ lastOp[T].op = "fire" /\ lastOp[T].result = "Bullet"
    /\ Filled = 1 /\ Left = 1
    /\ Count(results[T], "Empty") = 1
    /\ Count(results[T], "Jammed") > 0

\* Index of the last reload of h before index i, 0 when there is none.
PrevReload(h, i) == LastReload(SubSeq(h, 1, i - 1))

\* How many fires of h after index a, up to index b, returned Bullet.
BulletsIn(h, a, b) ==
    Cardinality({j \in (a + 1)..b :
                    h[j].op = "fire" /\ h[j].result = "Bullet"})

\* C25: a task reloads a room only right after its own fire found no bullet
\* left, so the fires between two consecutive reloads (or from the start to
\* the first reload) return Bullet exactly `bullets` times, and since the
\* last reload the Bullets returned and the bullets still in the gun add up
\* to `bullets`: no loaded chamber is thrown away unfired, none is returned
\* twice, whatever the interleaving and the jams.
C25_ReloadOnlyWhenSpent ==
    \A r \in group_data :
        LET h == history[r]
        IN  /\ \A i \in 1..Len(h) :
                  h[i].op = "reload" =>
                      /\ i > 1
                      /\ h[i - 1] = Entry(h[i].by, "fire", "NoBullets")
                      /\ BulletsIn(h, PrevReload(h, i), i) = cfg.bullets
            /\ BulletsIn(h, LastReload(h), Len(h))
                  + Peek(contents[r], position[r])[1] = cfg.bullets

C25_Witness ==
    \E r \in group_data :
        LET h == history[r]
        IN  /\ cfg.chambers = MaxChambers
            /\ \E i, j \in 1..Len(h) :
                  /\ i < j
                  /\ h[i].op = "reload"
                  /\ h[j].op = "fire" /\ h[j].result = "Bullet"
                  /\ \E k \in 1..i : h[k].op = "fire" /\ h[k].result = "Jammed"
====
